---- MODULE Spec2Model ----
(***************************************************************************)
(* OpenDepartureDisplay: the departure-refresh and color-table-refresh     *)
(* activities of main.py, the decoder and color resolver of                *)
(* helper_functions.py and the slot handling of gui.py, as a state         *)
(* machine.  Texts are TLA+ strings, a nullable value is None (<<>>) or    *)
(* Some(v) (<<v>>), an instant is a natural number.                        *)
(***************************************************************************)
EXTENDS Integers, Sequences, FiniteSets, TLC

\* ------------------------------------------------------------- bounds
\* Records per fetched document.  main.py asks for number_of_results=10;
\* the model keeps two stop points, so a window can be given up to twice
\* MaxResults departures, more than it has slots, as with 10 and 10.
MaxResults == 2
\* Slots per window: number_of_departure_entries of Window.__init__, 10 as
\* create_windows calls it.  Every capacity up to MaxCapacity is tried.
MaxCapacity == 2

\* ------------------------------------------------------------ helpers
None == <<>>

Some(v) == <<v>>

\* str.startswith
startswith(s, p) == Len(s) >= Len(p) /\ SubSeq(s, 1, Len(p)) = p

\* s[k:] of Python for a 0-based k >= 0
strfrom(s, k) == IF k >= Len(s) THEN "" ELSE SubSeq(s, k + 1, Len(s))

\* s[0:k] of Python
strto(s, k) == IF k >= Len(s) THEN s ELSE SubSeq(s, 1, k)

RECURSIVE split_from(_, _, _)
\* the words of s from position i on, cur being the word read so far
split_from(s, i, cur) ==
    IF i > Len(s) THEN <<cur>>
    ELSE IF SubSeq(s, i, i) = " " THEN <<cur>> \o split_from(s, i + 1, "")
    ELSE split_from(s, i + 1, cur \o SubSeq(s, i, i))

\* str.split(" "): one word more than there are spaces, empty words kept
split(s) == split_from(s, 1, "")

RECURSIVE join(_, _)
\* sep.join(words)
join(sep, words) ==
    IF Len(words) = 0 THEN ""
    ELSE IF Len(words) = 1 THEN words[1]
    ELSE words[1] \o sep \o join(sep, Tail(words))

Upper == "ABCDEFGHIJKLMNOPQRSTUVWXYZ"

Lower == "abcdefghijklmnopqrstuvwxyz"

\* the lower-case letter of each upper-case letter
LowerOf ==
    [ c \in { SubSeq(Upper, k, k) : k \in 1..Len(Upper) } |->
        LET k == CHOOSE k \in 1..Len(Upper) : SubSeq(Upper, k, k) = c
        IN  SubSeq(Lower, k, k) ]

\* one character, lower-cased
lower_char(c) == IF c \in DOMAIN LowerOf THEN LowerOf[c] ELSE c

RECURSIVE lower(_)
\* str.lower
lower(s) == IF Len(s) = 0 THEN "" ELSE lower_char(SubSeq(s, 1, 1)) \o lower(strfrom(s, 1))

\* a substring test, as str.contains(p, case=False) of pandas makes it
contains_nocase(s, p) ==
    LET ls == lower(s)
        lp == lower(p)
    IN  \E k \in 1..(Len(ls) - Len(lp) + 1) : SubSeq(ls, k, k + Len(lp) - 1) = lp

\* the last element of a non-empty sequence, words[-1]
last(seq) == seq[Len(seq)]

\* words[1:2]: the second word as a list of at most one word
second_slice(words) == IF Len(words) >= 2 THEN <<words[2]>> ELSE <<>>

\* ------------------------------------------------------ data classes
StopPoint(ref, prefix, suffix) ==
    [stop_point_ref |-> ref, prefix |-> prefix, suffix |-> suffix]

Station(name, lead, stop_points) ==
    [name |-> name, lead_time_minutes |-> lead, stop_points |-> stop_points]

Departure(line_number, destination, platform, station, stop_point, mode, colors, planned_time, estimated_time) ==
    [line_number |-> line_number, destination |-> destination,
     platform |-> platform, station |-> station, stop_point |-> stop_point,
     mode |-> mode, background_color |-> colors[1],
     text_color |-> colors[2], planned_time |-> planned_time,
     estimated_time |-> estimated_time]

\* ------------------------------------------------------ configuration
\* The stations section of the configuration file, in file order.
StationsConfigs ==
    { << [name |-> "A", lead_time_minutes |-> 0,
          stops |-> << [stop_point_ref |-> "de:1"],
                       [stop_point_ref |-> "de:2", suffix |-> "a"] >>] >> }

\* The windows section: the station each window names.  config.py accepts
\* a window only if its station is configured.
WindowsConfigs(stations_config) ==
    { << [station |-> stations_config[i].name], [station |-> stations_config[j].name] >> :
        i \in { 1 }, j \in { Len(stations_config) } }

\* The keys of the colors section.  config.py requires the first group and
\* accepts any further key; DepartureEntry.clear reads the second group.
RequiredColorKeys ==
    { "header_background", "header_text", "departure_entry_lighter",
      "departure_entry_darker", "departure_entry_text",
      "default_icon_background", "default_icon_text", "qr_code_background",
      "qr_code_foregreound" }

ClearColorKeys == { "DepartureEntry_darker", "DepartureEntry_lighter" }

ColorKeySets == { RequiredColorKeys, RequiredColorKeys \cup ClearColorKeys }

\* config.colors["default_icon_background"], config.colors["default_icon_text"]
FallbackColors == << "#AAAAAA", "#000000" >>

\* The values of "SEV-lines use normal line icon colors" config.py accepts:
\* a YAML boolean, or a text spelling true or false in any case.
SevSettings ==
    { [type |-> "bool", b |-> TRUE], [type |-> "bool", b |-> FALSE],
      [type |-> "str", s |-> "true"], [type |-> "str", s |-> "False"] }

\* Python's truth value of a configuration value
truthy(v) == IF v.type = "bool" THEN v.b ELSE v.s # ""

\* Helper.is_true_false_caseinsensitive: TRUE iff no ValueError is raised
is_true_false_caseinsensitive(v) ==
    LET text == IF v.type = "bool" THEN (IF v.b THEN "True" ELSE "False") ELSE v.s
    IN  lower(text) \in { "true", "false" }

\* ---------------------------------------------------- start-up (main.py)
\* one StopPoint per configured stop; a missing prefix or suffix is None
create_stop_point(stop) ==
    StopPoint(stop.stop_point_ref,
              IF "prefix" \in DOMAIN stop THEN Some(stop.prefix) ELSE None,
              IF "suffix" \in DOMAIN stop THEN Some(stop.suffix) ELSE None)

create_stations(stations_config) ==
    [ i \in 1..Len(stations_config) |->
        Station(stations_config[i].name,
                stations_config[i].lead_time_minutes,
                [ j \in 1..Len(stations_config[i].stops) |->
                    create_stop_point(stations_config[i].stops[j]) ]) ]

\* the station a window is bound to: the first one of that name, and the
\* last station of the list when the loop ends without a break
station_of_window(window_config, all_stations) ==
    IF \E i \in 1..Len(all_stations) : all_stations[i].name = window_config.station
    THEN all_stations[CHOOSE i \in 1..Len(all_stations) :
                        /\ all_stations[i].name = window_config.station
                        /\ \A j \in 1..(i - 1) : all_stations[j].name # window_config.station]
    ELSE all_stations[Len(all_stations)]

create_windows(windows_config, all_stations, capacity) ==
    [ w \in 1..Len(windows_config) |->
        [station |-> station_of_window(windows_config[w], all_stations),
         number_of_departure_entries |-> capacity] ]

\* membership in a list, by the dataclass's field-wise equality
in_list(x, list) == \E i \in 1..Len(list) : list[i] = x

RECURSIVE append_new(_, _)
\* the inner loop of get_all_used_stoppoints: append what is not yet in acc
append_new(acc, stop_points) ==
    IF Len(stop_points) = 0 THEN acc
    ELSE append_new(IF in_list(Head(stop_points), acc) THEN acc
                    ELSE Append(acc, Head(stop_points)),
                    Tail(stop_points))

RECURSIVE used_stoppoints_from(_, _, _)
used_stoppoints_from(wins, w, acc) ==
    IF w > Len(wins) THEN acc
    ELSE used_stoppoints_from(wins, w + 1, append_new(acc, wins[w].station.stop_points))

get_all_used_stoppoints(wins) == used_stoppoints_from(wins, 1, <<>>)

\* ----------------------------------------------- results of a call
\* A call returns a value or raises.
Return(v) == [raised |-> FALSE, value |-> v]

Raise == [raised |-> TRUE, value |-> None]

\* ------------------------------------------------ line color table
\* The file "line-colors.csv": None while it does not exist, else Some of
\* its content, the header line (whole or cut) and the rows below it.
CsvFile(rows) == [header |-> TRUE, rows |-> rows]

Row(operator, line, background, text) ==
    [shortOperatorName |-> operator, lineName |-> line,
     backgroundColor |-> background, textColor |-> text]

\* The table the server publishes.
PublishedTables ==
    { << Row("db", "42", "#FF0000", "#FFFFFF"),
         Row("KVV GmbH", "42", "#0000FF", "#FFFFFF") >> }

\* pd.read_csv and the two column accesses: raises when the file does not
\* exist or holds no complete header
read_csv(file) ==
    IF file = None THEN Raise
    ELSE IF ~file[1].header THEN Raise
    ELSE Return(file[1].rows)

\* df[mask]: the rows at the positions where mask holds, in order
select_rows(rows, mask) ==
    LET RECURSIVE sel(_)
        sel(i) == IF i > Len(rows) THEN <<>>
                  ELSE (IF mask[i] THEN <<rows[i]>> ELSE <<>>) \o sel(i + 1)
    IN  sel(1)

HighSpeedRailColors == << "#EC0016", "#FFFFFF" >>

CoachColors == << "#97d700", "#FFFFFF" >>

\* line 127: the rows whose operator name contains "kvv" in any case
kvv_rows(df) ==
    select_rows(df, [ i \in 1..Len(df) |->
                        contains_nocase(df[i].shortOperatorName, "kvv") ])

\* lines 130 and 137: the rows of a line
rows_of_line(filtered_df, line_name) ==
    select_rows(filtered_df, [ i \in 1..Len(filtered_df) |->
                                 filtered_df[i].lineName = line_name ])

\* line 143: the colors of the first row
first_pair(rows) == << rows[1].backgroundColor, rows[1].textColor >>

\* the lookup without the second search
lookup_exact(filtered_df, line_name, fallback_colors, sev_setting) ==
    IF Len(rows_of_line(filtered_df, line_name)) = 0 THEN fallback_colors
    ELSE first_pair(rows_of_line(filtered_df, line_name))

\* lines 132-148: the lookup in the filtered table
lookup_line(filtered_df, line_name, fallback_colors, sev_setting) ==
    IF Len(rows_of_line(filtered_df, line_name)) = 0
    THEN IF truthy(sev_setting) /\ strto(line_name, 3) = "SEV"
         THEN IF Len(rows_of_line(filtered_df, strfrom(line_name, 3))) = 0
              THEN fallback_colors
              ELSE first_pair(rows_of_line(filtered_df, strfrom(line_name, 3)))
         ELSE fallback_colors
    ELSE first_pair(rows_of_line(filtered_df, line_name))

\* lines 126-148 on what pd.read_csv gave
colors_from(read, line_name, fallback_colors, sev_setting) ==
    IF read.raised THEN Raise
    ELSE Return(lookup_line(kvv_rows(read.value), line_name, fallback_colors, sev_setting))

\* the table looked up for every line name
table_for_every_line(line_name, file, fallback_colors, sev_setting) ==
    colors_from(read_csv(file), line_name, fallback_colors, sev_setting)

\* get_line_color(line_name, filename, fallback_colors, SEV_lines_use_...)
get_line_color(line_name, file, fallback_colors, sev_setting) ==
    IF startswith(line_name, "ICE") \/ startswith(line_name, "IC")
    THEN Return(HighSpeedRailColors)
    ELSE IF startswith(line_name, "FLX")
    THEN Return(CoachColors)
    ELSE colors_from(read_csv(file), line_name, fallback_colors, sev_setting)

\* the last word of the text
last_token(platform) == last(split(platform))

\* format_platform
format_platform(platform) ==
    LET words == split(platform)
    IN  IF Len(words) > 1 THEN join(" ", Tail(words)) ELSE platform

\* ------------------------------------------------- protocol decoder
\* One StopEventResult of a response: each element the decoder looks for is
\* None when the document lacks it, else Some of its text.  The two times
\* stand for the instants their ISO texts denote.
StopEventResult(ref, planned, estimated, line, destination, bay, mode) ==
    [StopPointRef |-> ref, TimetabledTime |-> planned,
     EstimatedTime |-> estimated, PublishedLineName |-> line,
     DestinationText |-> destination, PlannedBay |-> bay, PtMode |-> mode]

\* the last word, whatever it is
last_word_only(published_line_name) == Some(last(split(published_line_name)))

\* lines 214-225: the line number of a published line name
line_number_of(published_line_name) ==
    LET words == split(published_line_name)
        first == IF Len(words) > 1 /\ words[2] = "SEV"
                 THEN Some("SEV" \o last(words)) ELSE None
    IN  IF Len(words) > 0
        THEN IF last(words) = "InterCityExpress"
             THEN Some("ICE" \o join("", second_slice(words)))
             ELSE IF last(words) = "InterCity"
             THEN Some("IC" \o join("", second_slice(words)))
             ELSE IF last(words) = "Flixbus"
             THEN Some("FLX" \o last(words))
             ELSE Some(last(words))
        ELSE first

\* the first station that has the requested ref, with the last stop point
\* that has it
first_station_last_stop_point(all_stations, stop_point_ref) ==
    LET having == { i \in 1..Len(all_stations) :
                      \E j \in 1..Len(all_stations[i].stop_points) :
                         all_stations[i].stop_points[j].stop_point_ref = stop_point_ref }
        first == CHOOSE i \in having : \A k \in having : i <= k
        final == CHOOSE i \in having : \A k \in having : i >= k
    IN  IF having = {} THEN None
        ELSE Some(<< all_stations[first],
                     last(SelectSeq(all_stations[final].stop_points,
                                    LAMBDA sp : sp.stop_point_ref = stop_point_ref)) >>)

\* lines 236-240: the last (station, stop point) whose ref is the requested
\* one; None when the loops assign nothing
resolve_stop_point(all_stations, stop_point_ref) ==
    LET places == UNION { { <<i, j>> : j \in 1..Len(all_stations[i].stop_points) } :
                          i \in 1..Len(all_stations) }
        hits == { p \in places :
                    all_stations[p[1]].stop_points[p[2]].stop_point_ref = stop_point_ref }
        later(p, q) == p[1] > q[1] \/ (p[1] = q[1] /\ p[2] >= q[2])
    IN  IF hits = {} THEN None
        ELSE LET p == CHOOSE p \in hits : \A q \in hits : later(p, q)
             IN  Some(<< all_stations[p[1]], all_stations[p[1]].stop_points[p[2]] >>)

\* a Departure only for a record that has a platform
departure_with_platform(e, line_number, owner, colors) ==
    IF colors.raised \/ e.PlannedBay = None THEN [kind |-> "raise"]
    ELSE [kind |-> "departure",
          departure |-> Departure(line_number, e.DestinationText[1],
                                  Some(format_platform(e.PlannedBay[1])),
                                  owner[1], owner[2], e.PtMode[1], colors.value,
                                  e.TimetabledTime[1], Some(e.TimetabledTime[1]))]

\* lines 249-263: the Departure of a record, or the exception of get_line_color
departure_of(e, line_number, owner, colors) ==
    IF colors.raised THEN [kind |-> "raise"]
    ELSE [kind |-> "departure",
          departure |-> Departure(line_number, e.DestinationText[1],
                                  IF e.PlannedBay = None THEN None
                                  ELSE Some(format_platform(e.PlannedBay[1])),
                                  owner[1], owner[2], e.PtMode[1], colors.value,
                                  e.TimetabledTime[1], e.EstimatedTime)]

\* lines 212-263 of a record whose required texts are there
decode_named(e, line_number, owner, fallback, sev_setting, file) ==
    IF owner = None THEN [kind |-> "raise"]
    ELSE departure_of(e, line_number, owner[1],
                      get_line_color(line_number, file, fallback, sev_setting))

\* lines 200-263 for one event_result: "skip" when the embedded identifier
\* does not start with the requested ref, "raise" when a step of the body
\* raises, else "departure" and the Departure appended
decode_event(stop_point_ref, e, all_stations, fallback, sev_setting, file) ==
    IF e.StopPointRef = None THEN [kind |-> "raise"]
    ELSE IF ~startswith(e.StopPointRef[1], stop_point_ref) THEN [kind |-> "skip"]
    ELSE IF e.TimetabledTime = None THEN [kind |-> "raise"]
    ELSE IF e.PublishedLineName = None THEN [kind |-> "raise"]
    ELSE IF e.DestinationText = None THEN [kind |-> "raise"]
    ELSE IF e.PtMode = None THEN [kind |-> "raise"]
    ELSE decode_named(e, line_number_of(e.PublishedLineName[1])[1],
                      resolve_stop_point(all_stations, stop_point_ref),
                      fallback, sev_setting, file)

RECURSIVE decode_from(_, _, _, _, _, _, _, _)
\* line 263 and the loop of line 200: r is what the record at i gave
decode_next(r, stop_point_ref, events, i, departures, all_stations, fallback, sev_setting, file) ==
    IF r.kind = "raise" THEN Raise
    ELSE decode_from(stop_point_ref, events, i + 1,
                     IF r.kind = "skip" THEN departures ELSE Append(departures, r.departure),
                     all_stations, fallback, sev_setting, file)

\* the loop of line 200 from record i on
decode_from(stop_point_ref, events, i, departures, all_stations, fallback, sev_setting, file) ==
    IF i > Len(events) THEN Return(departures)
    ELSE decode_next(decode_event(stop_point_ref, events[i], all_stations, fallback,
                                  sev_setting, file),
                     stop_point_ref, events, i, departures, all_stations, fallback,
                     sev_setting, file)

\* get_departures_from_xml: the list of Departures, or an exception
get_departures_from_xml(stop_point_ref, tree, all_stations, fallback, sev_setting, file) ==
    decode_from(stop_point_ref, tree, 1, <<>>, all_stations, fallback, sev_setting, file)

\* every departure, whatever its station
all_for_window(window, departures) == departures

\* get_departures_for_window
get_departures_for_window(window, departures) ==
    select_rows(departures, [ i \in 1..Len(departures) |->
                                departures[i].station = window.station ])

\* ------------------------------------------------------------- gui.py
\* A DepartureEntry: whether its line_icon_label widget still exists, the
\* image the label shows, and the three text variables.  time_text_var
\* holds the text computed from time_shown; it is kept as that instant.
BlankEntry ==
    [line_icon_label |-> TRUE, image |-> None, destination_var |-> "",
     platform_var |-> "", time_text_var |-> None]

\* the key LineIcons.get_icon caches an icon under
icon_key(departure) ==
    LET text == IF departure.line_number = "InterCityExpress" THEN "ICE"
                ELSE IF departure.line_number = "InterCity" THEN "IC"
                ELSE departure.line_number
    IN  << departure.mode, text, departure.background_color, departure.text_color >>

\* a key that ignores estimated_time
planned_time_only(departure) == departure.planned_time

\* lines 221-224 and 143: estimated_time if there is one, else planned_time
time_shown(departure) ==
    IF departure.estimated_time = None THEN departure.planned_time
    ELSE departure.estimated_time[1]

\* DepartureEntry.update: the icon is made (and cached) before the label is
\* configured; configuring a destroyed label raises, and then the text
\* variables are not set
update(entry, departure, cache) ==
    IF ~entry.line_icon_label
    THEN [raised |-> TRUE, entry |-> entry, cache |-> cache \cup { icon_key(departure) }]
    ELSE [raised |-> FALSE,
          entry |-> [line_icon_label |-> TRUE,
                     image |-> Some(icon_key(departure)),
                     destination_var |-> departure.destination,
                     platform_var |-> IF departure.platform = None THEN "N/A"
                                      ELSE departure.platform[1],
                     time_text_var |-> Some(time_shown(departure))],
          cache |-> cache \cup { icon_key(departure) }]

\* DepartureEntry.clear: destroys the label and empties the variables, then
\* looks the background up under a key of config.colors
clear(entry, index, colors) ==
    [raised |-> (IF index % 2 = 1 THEN "DepartureEntry_darker"
                 ELSE "DepartureEntry_lighter") \notin colors,
     entry |-> [line_icon_label |-> FALSE, image |-> None, destination_var |-> "",
                platform_var |-> "", time_text_var |-> None]]

RECURSIVE insert_sorted(_, _)
\* d put behind every element of the sorted list whose key is not greater
insert_sorted(sorted, d) ==
    IF Len(sorted) = 0 THEN << d >>
    ELSE IF time_shown(last(sorted)) <= time_shown(d) THEN Append(sorted, d)
    ELSE Append(insert_sorted(SubSeq(sorted, 1, Len(sorted) - 1), d), last(sorted))

RECURSIVE sort_from(_, _, _)
sort_from(departures, i, sorted) ==
    IF i > Len(departures) THEN sorted
    ELSE sort_from(departures, i + 1, insert_sorted(sorted, departures[i]))

\* list.sort(key=...): ascending by key, equal keys in their incoming order
sort(departures) == sort_from(departures, 1, <<>>)

RECURSIVE update_loop(_, _, _, _, _)
\* lines 150-153: r is what update on entries[i + 1] gave
updated(r, entries, departures, i, capacity) ==
    IF r.raised
    THEN [raised |-> TRUE, entries |-> [entries EXCEPT ![i + 1] = r.entry],
          cache |-> r.cache, i |-> i]
    ELSE IF i + 1 >= capacity \/ i + 1 >= Len(departures)
    THEN [raised |-> FALSE, entries |-> [entries EXCEPT ![i + 1] = r.entry],
          cache |-> r.cache, i |-> i]
    ELSE update_loop([entries EXCEPT ![i + 1] = r.entry], departures, i + 1, r.cache,
                     capacity)

\* lines 149-153, from i on (0-based): the entries, the cache, the last i
update_loop(entries, departures, i, cache, capacity) ==
    updated(update(entries[i + 1], departures[i + 1], cache), entries, departures, i,
            capacity)

RECURSIVE clear_loop(_, _, _, _)
\* line 157: r is what clear on entries[s] gave
cleared(r, entries, s, i, colors) ==
    IF r.raised THEN [raised |-> TRUE, entries |-> [entries EXCEPT ![s] = r.entry]]
    ELSE clear_loop([entries EXCEPT ![s] = r.entry], s + 1, i, colors)

\* lines 156-157: clear(i) on the entries from slot s on
clear_loop(entries, s, i, colors) ==
    IF s > Len(entries) THEN [raised |-> FALSE, entries |-> entries]
    ELSE cleared(clear(entries[s], i, colors), entries, s, i, colors)

\* lines 156-157 after the update loop, c what the clear loop gave
refresh_cleared(c, u, sorted) ==
    [raised |-> c.raised, entries |-> c.entries, cache |-> u.cache, departures |-> sorted]

\* lines 149-157 after the update loop, u what it gave
refresh_updated(u, sorted, colors) ==
    IF u.raised
    THEN [raised |-> TRUE, entries |-> u.entries, cache |-> u.cache, departures |-> sorted]
    ELSE refresh_cleared(clear_loop(u.entries, u.i + 2, u.i, colors), u, sorted)

\* lines 146-157 on the sorted list
refresh_sorted(entries, sorted, cache, capacity, colors) ==
    IF Len(sorted) < 1
    THEN [raised |-> FALSE, entries |-> entries, cache |-> cache, departures |-> sorted]
    ELSE refresh_updated(update_loop(entries, sorted, 0, cache, capacity), sorted, colors)

\* Window.refresh on the window's entries (the header entry left out, so
\* departure_entries[i + 1] is entries[i + 1] here, i 0-based)
refresh(entries, departures, cache, capacity, colors) ==
    refresh_sorted(entries, sort(departures), cache, capacity, colors)

\* ------------------------------------------------- the outside world
\* The records a response to a request for stop_point_ref may hold: a
\* complete one, one under a longer identifier and without a platform, and
\* one that lacks its timetabled time.
EventSamples(stop_point_ref) ==
    { StopEventResult(Some(stop_point_ref), Some(2), None, Some("Bus 42"),
                      Some("Hbf"), Some("Gleis 3"), Some("bus")),
      StopEventResult(Some(stop_point_ref \o ":1"), Some(1), Some(3),
                      Some("ICE 788 InterCityExpress"), Some("Berlin"),
                      None, Some("rail")),
      StopEventResult(Some(stop_point_ref), None, None, Some("Bus SEV 2"),
                      Some("Zoo"), Some("7"), Some("bus")) }

\* the documents of at most MaxResults records
Documents(stop_point_ref) ==
    UNION { [ 1..n -> EventSamples(stop_point_ref) ] : n \in 0..MaxResults }

\* KVV.get(stop_point_ref, number_of_results): the call raises, or returns
\* a text: a well-formed document, or a text that is no well-formed XML
\* (a cut or garbled body, the body of an error status)
Responses(stop_point_ref) ==
    { [kind |-> "raise"], [kind |-> "malformed"] }
    \cup { [kind |-> "xml", events |-> d] : d \in Documents(stop_point_ref) }

\* the ways a kvv.get ends
ResponseKinds == { "raise", "malformed", "xml" }

\* ET.ElementTree(ET.fromstring(response))
fromstring(r) ==
    IF r.kind = "xml" THEN Return(r.events) ELSE Raise

\* What a transfer that breaks off leaves of a table in the file.
Truncations(table) ==
    { [header |-> FALSE, rows |-> <<>>] }
    \cup { [header |-> TRUE, rows |-> SubSeq(table, 1, n)] : n \in 0..(Len(table) - 1) }

\* urlretrieve(url, filename): how the call ends and the file as it is left.
\* An error status (HTTPError) and an unreachable server (URLError) are met
\* before the file is opened; a transfer that breaks off
\* (ContentTooShortError, a URLError) has by then overwritten the file.
urlretrieve(file) ==
    { [ended |-> "ok", file |-> Some(CsvFile(t))] : t \in PublishedTables }
    \cup { [ended |-> "HTTPError", file |-> file], [ended |-> "URLError", file |-> file] }
    \cup { [ended |-> "ContentTooShortError", file |-> Some(f)] :
              f \in UNION { Truncations(t) : t \in PublishedTables } }

\* a download_line_color_list that reports success however urlretrieve ended
download_always_true(ended) == Return(TRUE)

\* download_line_color_list: True, False, or the exception it lets through
\* (the except clause names HTTPError only)
download_line_color_list(ended) ==
    IF ended = "ok" THEN Return(TRUE)
    ELSE IF ended = "HTTPError" THEN Return(FALSE)
    ELSE Raise

\* --------------------------------------------------------------- state
VARIABLES
    config,             \* the checked configuration file
    stations,           \* main.py line 56
    windows,            \* main.py line 57
    all_stop_points,    \* main.py line 61
    color_file,         \* the file "line-colors.csv"
    icon_cache,         \* icons.icon_cache
    departure_entries,  \* per window, its DepartureEntry slots below the header
    main_pc,            \* main.py: "line101", "line102", "mainloop", "exited"
    timers,             \* the callbacks root.after has pending
    running,            \* the callback the Tk thread is in: "none", "dep", "data"
    stop_i,             \* update_departure_entries: index of the stop point in work
    response,           \* update_departure_entries: what kvv.get returned last
    all_departures,     \* update_departure_entries: the aggregate list
    window_departures,  \* update_departure_entries: the list of the last refresh
    window_i,           \* update_departure_entries: index of the last window refreshed
    unparsable,         \* the stop points (by index) whose response fromstring refused
    ended,              \* how the last callback ended; "none" while one runs
    handed,             \* update_departure_entries: per window refreshed, the list given
    fetched,            \* update_departure_entries: the records kvv.get has returned
    call                \* a function called on its own: its name, arguments and result

\* The locals of a callback are kept after it has ended, until the next
\* callback is entered.

\* what start-up sets and nothing writes afterwards
setup == << config, stations, windows, all_stop_points >>

\* the locals of update_departure_entries
locals ==
    << stop_i, response, all_departures, window_departures, window_i, unparsable, handed,
       fetched >>

vars ==
    << setup, color_file, icon_cache, departure_entries, main_pc, timers, running,
       locals, ended, call >>

\* no function has been called on its own
NoCall == [fn |-> "none"]

\* the configurations with one of the given stations sections
ConfigsOf(stations_configs) ==
    { [stations |-> s, windows |-> w, colors |-> c, sev |-> v] :
        s \in stations_configs, w \in UNION { WindowsConfigs(x) : x \in stations_configs },
        c \in ColorKeySets, v \in { x \in SevSettings : x.type = "bool" /\ x.b } }

Configs == ConfigsOf(StationsConfigs)

\* main.py up to line 100, for one of the given configurations and with
\* one of the given files as line-colors.csv
start_up(configs, files) ==
    /\ config \in { c \in configs : c.windows \in WindowsConfigs(c.stations) }
    /\ stations = create_stations(config.stations)
    /\ \E n \in 1..MaxCapacity : windows = create_windows(config.windows, stations, n)
    /\ all_stop_points = get_all_used_stoppoints(windows)
    /\ color_file \in files
    /\ icon_cache = {}
    /\ departure_entries =
         [ w \in 1..Len(config.windows) |->
             [ k \in 1..windows[w].number_of_departure_entries |-> BlankEntry ] ]
    /\ main_pc = "line101"
    /\ timers = {}
    /\ running = "none"
    /\ stop_i = 0
    /\ response = None
    /\ all_departures = <<>>
    /\ window_departures = <<>>
    /\ window_i = 0
    /\ unparsable = {}
    /\ ended = "none"
    /\ handed = <<>>
    /\ fetched = {}
    /\ call = NoCall

Init ==
    start_up(Configs, { None } \cup { Some(CsvFile(t)) : t \in PublishedTables })

\* Stations sections with two stations: with different stop points, and
\* with stop points of the same ref that differ in their prefix.
TwoStationsConfigs ==
    { << [name |-> "A", lead_time_minutes |-> 0,
          stops |-> << [stop_point_ref |-> "de:1"] >>],
         [name |-> "B", lead_time_minutes |-> 0,
          stops |-> << [stop_point_ref |-> r, prefix |-> "Gl."] >>] >> :
        r \in { "de:1", "de:2" } }

\* Start-up with two windows on one station or on two stations, a colors
\* section that has the keys DepartureEntry.clear reads, and a downloaded
\* table in place.
InitStations ==
    start_up({ c \in ConfigsOf(StationsConfigs \cup TwoStationsConfigs) :
                 ClearColorKeys \subseteq c.colors },
             { Some(CsvFile(t)) : t \in PublishedTables })

\* A callback is entered from the module's own call (lines 101, 102) or,
\* in the main loop, when its timer is due; one at a time.
Due(callback, line) ==
    /\ running = "none"
    /\ \/ main_pc = line
       \/ main_pc = "mainloop" /\ callback \in timers

\* where main.py stands after a callback has ended: an exception leaving a
\* call of the module ends the program, one leaving a Tk callback is
\* reported by Tk and the main loop goes on
after_callback(raised, next_line) ==
    IF main_pc = "mainloop" THEN "mainloop"
    ELSE IF raised THEN "exited"
    ELSE next_line

\* update_data is entered and waits in urlretrieve
update_data_enter ==
    /\ Due("data", "line101")
    /\ running' = "data"
    /\ timers' = timers \ { "data" }
    /\ stop_i' = 0
    /\ response' = None
    /\ all_departures' = <<>>
    /\ window_departures' = <<>>
    /\ window_i' = 0
    /\ unparsable' = {}
    /\ ended' = "none"
    /\ handed' = <<>>
    /\ fetched' = {}
    /\ UNCHANGED << setup, color_file, icon_cache, departure_entries, main_pc, call >>

\* lines 93-98 once urlretrieve has ended
update_data_body(got) ==
    LET ok == download_line_color_list(got.ended)
    IN  /\ color_file' = got.file
        /\ ended' = got.ended
        /\ icon_cache' = IF ~ok.raised /\ ok.value THEN {} ELSE icon_cache
        /\ timers' = IF ok.raised THEN timers ELSE timers \cup { "data" }
        /\ main_pc' = after_callback(ok.raised, "line102")
        /\ running' = "none"

\* urlretrieve ends, and update_data runs to its end
update_data ==
    /\ running = "data"
    /\ \E got \in urlretrieve(color_file) : update_data_body(got)
    /\ UNCHANGED << setup, departure_entries, locals, call >>

\* the list of the call before
list_of_last_call(previous) == previous

\* line 67: a new list, whatever the call before has left
empty_list(previous) == <<>>

\* update_departure_entries is entered and waits in the first kvv.get
update_departure_entries_enter ==
    /\ Due("dep", "line102")
    /\ running' = "dep"
    /\ timers' = timers \ { "dep" }
    /\ stop_i' = 1
    /\ response' = None
    /\ all_departures' = empty_list(all_departures)
    /\ window_departures' = <<>>
    /\ window_i' = 0
    /\ unparsable' = {}
    /\ ended' = "none"
    /\ handed' = <<>>
    /\ fetched' = {}
    /\ UNCHANGED << setup, color_file, icon_cache, departure_entries, main_pc, call >>

\* lines 77: get_departures_from_xml on the parsed tree
decode_tree(stop_point, tree) ==
    IF tree.raised THEN Raise
    ELSE get_departures_from_xml(stop_point.stop_point_ref, tree.value, stations,
                                 FallbackColors, config.sev, color_file)

\* lines 74-79: the try block on a returned response
try_decode(stop_point, r) == decode_tree(stop_point, fromstring(r))

RECURSIVE refresh_windows(_, _, _, _)
\* line 84: r is what the refresh of window w gave
refreshed(r, w, departures, entries) ==
    IF r.raised \/ w >= Len(windows)
    THEN [raised |-> r.raised, entries |-> [entries EXCEPT ![w] = r.entries],
          cache |-> r.cache, window_i |-> w, window_departures |-> r.departures]
    ELSE refresh_windows(w + 1, departures, [entries EXCEPT ![w] = r.entries], r.cache)

\* lines 82-84 from window w on: stops at the first refresh that raises
refresh_windows(w, departures, entries, cache) ==
    refreshed(refresh(entries[w], get_departures_for_window(windows[w], departures),
                      cache, windows[w].number_of_departure_entries, config.colors),
              w, departures, entries)

\* the handler ends: by an exception that left it at `line`, or through line 88
end_cycle(raised, line) ==
    /\ running' = "none"
    /\ ended' = IF raised THEN line ELSE "returned"
    /\ timers' = IF raised THEN timers ELSE timers \cup { "dep" }
    /\ main_pc' = after_callback(raised, "mainloop")

\* kvv.get raised (line 73 is outside the try block)
fetch_raised ==
    /\ end_cycle(TRUE, "line73")
    /\ UNCHANGED << stop_i, response, all_departures, window_departures, window_i,
                    unparsable, handed, fetched, departure_entries, icon_cache >>

\* lines 82-88: shown is what the loop over the windows gave
show_and_end(shown) ==
    /\ handed' = [ w \in 1..shown.window_i |->
                     get_departures_for_window(windows[w], all_departures') ]
    /\ departure_entries' = shown.entries
    /\ icon_cache' = shown.cache
    /\ window_departures' = shown.window_departures
    /\ window_i' = shown.window_i
    /\ end_cycle(shown.raised, "line84")

\* the next stop point, or after the last one lines 82-88
fetch_next(departures) ==
    /\ all_departures' = departures
    /\ IF stop_i < Len(all_stop_points)
       THEN /\ stop_i' = stop_i + 1
            /\ UNCHANGED << departure_entries, icon_cache, window_departures,
                            window_i, handed, running, ended, timers, main_pc >>
       ELSE /\ stop_i' = stop_i
            /\ show_and_end(refresh_windows(1, departures, departure_entries, icon_cache))

\* lines 77-79: decoded is what the try block gave
fetch_decoded(decoded) ==
    fetch_next(IF decoded.raised THEN all_departures
               ELSE all_departures \o decoded.value)

\* the records of a returned text
records_of(r) ==
    IF r.kind = "xml" THEN { r.events[k] : k \in 1..Len(r.events) } ELSE {}

\* kvv.get returned r: lines 74-79, then the next stop point, or after the
\* last one lines 82-88
fetch_returned(r) ==
    /\ response' = Some(r)
    /\ fetched' = fetched \cup records_of(r)
    /\ unparsable' = IF fromstring(r).raised THEN unparsable \cup { stop_i }
                     ELSE unparsable
    /\ fetch_decoded(try_decode(all_stop_points[stop_i], r))

\* one kvv.get of update_departure_entries ends, in one of the given kinds
\* of ways, and the handler runs on to its next kvv.get or to its end
update_departure_entries(kinds) ==
    /\ running = "dep"
    /\ \E r \in { x \in Responses(all_stop_points[stop_i].stop_point_ref) : x.kind \in kinds } :
          IF r.kind = "raise" THEN fetch_raised ELSE fetch_returned(r)
    /\ UNCHANGED << setup, color_file, call >>

Next ==
    \/ update_data_enter
    \/ update_data
    \/ update_departure_entries_enter
    \/ update_departure_entries(ResponseKinds)

Spec == Init /\ [][Next]_vars

\* the program while no kvv.get raises
NextReturning ==
    \/ update_data_enter
    \/ update_data
    \/ update_departure_entries_enter
    \/ update_departure_entries(ResponseKinds \ { "raise" })

SpecReturning == Init /\ [][NextReturning]_vars

\* the program with one or two stations, while no kvv.get raises
SpecStations == InitStations /\ [][NextReturning]_vars

\* ------------------------------------------- the functions on their own
\* Each function of helper_functions.py that takes texts is also applied on
\* its own, to arguments drawn from the sets below; call holds the
\* arguments and what the function gave.
MaxWords == 3

MaxRows == 2

\* the sequences over a set of at least one and at most n elements
lists_of(elements, n) == UNION { [ 1..k -> elements ] : k \in 1..n }

\* the words of a published line name
LineWords ==
    { "", "Bus", "42", "788", "SEV", "InterCityExpress", "InterCity", "Flixbus" }

\* the words of a platform text
PlatformWords == { "", "Gleis", "3", "7a" }

\* line numbers passed to get_line_color
LineNames == { "ICE788", "IC2", "FLX10", "42", "SEV42", "SEV9", "SEV", "9" }

\* rows a table may hold
TableRows ==
    { Row("KVV GmbH", "42", "#0000FF", "#FFFFFF"),
      Row("db", "42", "#FF0000", "#FFFFFF"),
      Row("db", "9", "#FF0000", "#FFFFFF"),
      Row("kvv", "ICE788", "#00FF00", "#000000"),
      Row("KVV GmbH", "FLX10", "#00FFFF", "#000000"),
      Row("KVV GmbH", "SEV42", "#FFFF00", "#000000") }

\* the file of get_line_color: missing, cut within its header, or a table
TableFiles ==
    { None, Some([header |-> FALSE, rows |-> <<>>]), Some(CsvFile(<<>>)) }
    \cup { Some(CsvFile(t)) : t \in lists_of(TableRows, MaxRows) }

\* the pairs passed as fallback_colors
FallbackPairs == { FallbackColors, << "#123456", "#654321" >> }

\* a document of one record for the stop point, with the given line name,
\* estimated time and platform
one_record(stop_point_ref, line, estimated, bay) ==
    << StopEventResult(Some(stop_point_ref), Some(2), estimated, Some(line),
                       Some("Hbf"), bay, Some("bus")) >>

\* the rest of the state while a function is applied on its own
program == << setup, color_file, icon_cache, departure_entries, main_pc, timers,
              running, locals, ended >>

call_get_line_color ==
    /\ call = NoCall
    /\ \E line_name \in LineNames, file \in TableFiles,
          fallback_colors \in FallbackPairs, sev_setting \in SevSettings :
          call' = [fn |-> "get_line_color", line_name |-> line_name, file |-> file,
                   fallback_colors |-> fallback_colors, sev_setting |-> sev_setting,
                   result |-> get_line_color(line_name, file, fallback_colors,
                                             sev_setting)]
    /\ UNCHANGED program

call_get_departures_from_xml ==
    /\ call = NoCall
    /\ \E words \in lists_of(LineWords, MaxWords), estimated \in { None, Some(3) },
          bay \in { None, Some("Gleis 3"), Some("7") } :
          call' = [fn |-> "get_departures_from_xml", words |-> words,
                   stop_point_ref |-> all_stop_points[1].stop_point_ref,
                   tree |-> one_record(all_stop_points[1].stop_point_ref,
                                       join(" ", words), estimated, bay),
                   result |-> get_departures_from_xml(
                                 all_stop_points[1].stop_point_ref,
                                 one_record(all_stop_points[1].stop_point_ref,
                                            join(" ", words), estimated, bay),
                                 stations, FallbackColors, config.sev, color_file)]
    /\ UNCHANGED program

call_format_platform ==
    /\ call = NoCall
    /\ \E words \in lists_of(PlatformWords, MaxWords) :
          call' = [fn |-> "format_platform", platform |-> join(" ", words),
                   result |-> format_platform(join(" ", words))]
    /\ UNCHANGED program

\* the caller goes on
call_returned ==
    /\ call # NoCall
    /\ call' = NoCall
    /\ UNCHANGED program

NextCalls ==
    \/ call_get_line_color
    \/ call_get_departures_from_xml
    \/ call_format_platform
    \/ call_returned

SpecCalls == Init /\ [][NextCalls]_vars

\* ------------------------------------------------------------ properties
\* update_departure_entries has ended (and no callback was entered since)
cycle_ended == running = "none" /\ ended \in { "returned", "line73", "line84" }

\* the slot shows no departure
shows_nothing(entry) ==
    entry.destination_var = "" /\ entry.platform_var = "" /\ entry.time_text_var = None

\* the slot shows departure d
shows(entry, d) ==
    /\ entry.line_icon_label
    /\ entry.image = Some(icon_key(d))
    /\ entry.destination_var = d.destination
    /\ entry.platform_var = (IF d.platform = None THEN "N/A" ELSE d.platform[1])
    /\ entry.time_text_var = Some(IF d.estimated_time # None THEN d.estimated_time[1]
                                  ELSE d.planned_time)

\* C1: a cycle in which the fetch for one stop point raised still fetched
\* every stop point and refreshed every window.
C1_fetch_failure_isolated ==
    (running = "none" /\ ended = "line73")
        => (stop_i = Len(all_stop_points) /\ window_i = Len(windows))

\* C2: every execution of update_departure_entries, however its decodes and
\* window refreshes went, has ended with the next cycle scheduled.
C2_departures_rearm ==
    cycle_ended => "dep" \in timers

\* C3: every execution of update_data, whether the download succeeded, met
\* an error status or found the server unreachable, has ended without an
\* error leaving it and with the next color-table cycle scheduled.
C3_colors_rearm ==
    (running = "none" /\ ended \in { "ok", "HTTPError", "URLError" })
        => ("data" \in timers /\ main_pc # "exited")

\* C4: update_data empties the icon cache when its download succeeded, and
\* leaves the icon cache as it was when the download failed.
C4_cache_cleared_iff_downloaded ==
    [][ (running = "data" /\ running' = "none")
            => /\ (ended' = "ok" => icon_cache' = {})
               /\ (ended' # "ok" => icon_cache' = icon_cache) ]_vars

\* C4: a failed download has ended with icons still cached
C4_witness ==
    running = "none" /\ ended = "HTTPError" /\ icon_cache # {}

\* the line numbers looked up in C5
LineNumbers == { "42", "SEV42", "2", "ICE788" }

\* C5: a failed download after a successful one leaves the stored table as
\* it was, and every line number resolves to the pair it resolved to before.
C5_stale_table_on_failure ==
    [][ (/\ running = "data" /\ running' = "none" /\ ended' # "ok"
         /\ color_file \in { Some(CsvFile(t)) : t \in PublishedTables })
            => /\ color_file' = color_file
               /\ \A l \in LineNumbers :
                     get_line_color(l, color_file', FallbackColors, config.sev)
                       = get_line_color(l, color_file, FallbackColors, config.sev) ]_vars

\* the record has no planned time or no destination
lacks_required_field(e) == e.TimetabledTime = None \/ e.DestinationText = None

\* C6: when records of a well-formed response lack a required field (and
\* nothing else is wrong with the response), every other record that
\* matches the stop point is decoded and reaches the aggregate list.
C6_only_the_record_dropped ==
    [][ LET ref == all_stop_points[stop_i].stop_point_ref
            events == response'[1].events
            decoded(k) == decode_event(ref, events[k], stations, FallbackColors,
                                       config.sev, color_file)
        IN  (/\ running = "dep" /\ ended' # "line73" /\ response'[1].kind = "xml"
             /\ \A k \in 1..Len(events) :
                   decoded(k).kind = "raise" => lacks_required_field(events[k]))
                => \A k \in 1..Len(events) :
                      decoded(k).kind = "departure"
                        => \E j \in (Len(all_departures) + 1)..Len(all_departures') :
                              all_departures'[j] = decoded(k).departure ]_vars

\* C7: a cycle in which a response was no XML ends without an error, with
\* every stop point processed and every window refreshed, and with no
\* departure of the stop point the response was for.
C7_unparsable_isolated ==
    (running = "none" /\ unparsable # {})
        => /\ ended = "returned"
           /\ stop_i = Len(all_stop_points)
           /\ window_i = Len(windows)
           /\ \A j \in 1..Len(all_departures) : \A u \in unparsable :
                 all_departures[j].stop_point # all_stop_points[u]

\* C8: after a window was refreshed with fewer departures than it has
\* slots, none or more, every slot beyond them shows nothing.
C8_slots_beyond_cleared ==
    (cycle_ended /\ window_i >= 1)
        => \A k \in (Len(window_departures) + 1)..windows[window_i].number_of_departure_entries :
              shows_nothing(departure_entries[window_i][k])

\* C9: a window refreshed with more departures than it has slots shows the
\* earliest of them in its slots, in order, and the refresh raises nothing.
C9_capacity_truncation ==
    (/\ cycle_ended /\ window_i >= 1
     /\ Len(window_departures) > windows[window_i].number_of_departure_entries)
        => /\ ended = "returned"
           /\ \A k \in 1..windows[window_i].number_of_departure_entries :
                 shows(departure_entries[window_i][k], window_departures[k])

\* estimated_time when it is present, planned_time otherwise
effective_time(d) ==
    IF d.estimated_time # None THEN d.estimated_time[1] ELSE d.planned_time

\* out is incoming rearranged, ascending by effective time, departures of
\* equal effective time in their incoming order
stable_ascending(incoming, out) ==
    /\ Len(out) = Len(incoming)
    /\ \E p \in Permutations(1..Len(incoming)) :
          /\ \A i \in 1..Len(out) : out[i] = incoming[p[i]]
          /\ \A i, j \in 1..Len(out) :
                i < j => \/ effective_time(out[i]) < effective_time(out[j])
                         \/ /\ effective_time(out[i]) = effective_time(out[j])
                            /\ p[i] < p[j]

\* C10: the list Window.refresh works on is the list it was given, put in
\* ascending order of effective time, ties in their incoming order.
C10_sorted_by_effective_time ==
    window_i >= 1
        => stable_ascending(get_departures_for_window(windows[window_i], all_departures),
                            window_departures)

\* C10: a departure without estimated time came in behind one with a later
\* estimated time and an earlier planned time, and was put before it; and
\* two departures of equal effective time were given
C10_witness ==
    /\ window_i >= 1
    /\ Len(window_departures) >= 3
    /\ LET incoming == get_departures_for_window(windows[window_i], all_departures)
       IN  /\ incoming[1].estimated_time # None
           /\ incoming[2].estimated_time = None
           /\ incoming[2].planned_time > incoming[1].planned_time
           /\ window_departures[1] = incoming[2]
           /\ \E i, j \in 1..Len(incoming) :
                 i < j /\ effective_time(incoming[i]) = effective_time(incoming[j])
                       /\ incoming[i] # incoming[j]

\* the positions of the aggregate list whose departure is of the station
positions_of(aggregate, station) ==
    { j \in 1..Len(aggregate) : aggregate[j].station = station }

\* list holds the departures of the station, all of them, in the order of
\* the aggregate list
sublist_of_station(list, aggregate, station) ==
    /\ Len(list) = Cardinality(positions_of(aggregate, station))
    /\ \A i \in 1..Len(list) :
          \E j \in positions_of(aggregate, station) :
             /\ Cardinality({ k \in positions_of(aggregate, station) : k < j }) = i - 1
             /\ list[i] = aggregate[j]

\* C11: the list given to a window is the aggregate list's departures of the
\* window's station, all of them and in the aggregate's order, and windows
\* on the same station are given the same list.
C11_window_gets_its_station ==
    /\ \A w \in 1..Len(handed) :
          sublist_of_station(handed[w], all_departures, windows[w].station)
    /\ \A v, w \in 1..Len(handed) :
          windows[v].station = windows[w].station => handed[v] = handed[w]

\* C11: two windows on different stations were given the two parts of an
\* aggregate that holds departures of both stations, the first window two
\* different departures
C11_witness ==
    /\ Len(handed) = 2
    /\ windows[1].station # windows[2].station
    /\ handed[1] # <<>> /\ handed[2] # <<>>
    /\ Len(handed[1]) + Len(handed[2]) = Len(all_departures)
    /\ Len(handed[1]) = 2 /\ handed[1][1] # handed[1][2]

\* the stop_point_ref values that occur in the windows' stations
used_refs ==
    UNION { { windows[w].station.stop_points[i].stop_point_ref :
                i \in 1..Len(windows[w].station.stop_points) } : w \in 1..Len(windows) }

\* the stop points a cycle has requested so far
requested == { i \in 1..Len(all_stop_points) : running = "dep" /\ i <= stop_i }

\* C12: all_stop_points holds one StopPoint per stop_point_ref that occurs
\* in the windows' stations, so no two requests of a cycle are for the same
\* ref.
C12_one_stop_point_per_ref ==
    /\ Len(all_stop_points) = Cardinality(used_refs)
    /\ \A i, j \in requested :
          all_stop_points[i].stop_point_ref = all_stop_points[j].stop_point_ref => i = j

\* the departure names a station of all_stations and a stop point of that
\* station whose ref is stop_point_ref
consistent(d, all_stations, stop_point_ref) ==
    /\ in_list(d.station, all_stations)
    /\ in_list(d.stop_point, d.station.stop_points)
    /\ d.stop_point.stop_point_ref = stop_point_ref

\* C13: every Departure that get_departures_from_xml adds to the aggregate
\* list has a station of all_stations, a stop point that is among that
\* station's stop points, and the requested ref as its stop point's ref.
C13_referential_consistency ==
    [][ running = "dep" /\ Len(all_departures') > Len(all_departures)
        => \A j \in (Len(all_departures) + 1)..Len(all_departures') :
              consistent(all_departures'[j], stations,
                         all_stop_points[stop_i].stop_point_ref) ]_vars

\* C13: a response to the request for the second stop point, which has the
\* ref of the first station's stop point too, gave a Departure for a record
\* whose identifier is longer than the ref
C13_witness ==
    /\ ended = "returned" /\ stop_i = 2
    /\ Len(all_stop_points) = 2
    /\ all_stop_points[1].stop_point_ref = all_stop_points[2].stop_point_ref
    /\ response # None /\ response[1].kind = "xml"
    /\ \E j \in 1..Len(all_departures) : \E k \in 1..Len(response[1].events) :
          /\ response[1].events[k].StopPointRef # None
          /\ response[1].events[k].StopPointRef[1] # all_stop_points[2].stop_point_ref
          /\ all_departures[j].destination = response[1].events[k].DestinationText[1]
          /\ all_departures[j].station = stations[2]

\* the table of the file has a local-operator row of the line
has_row(file, line_name) ==
    /\ ~read_csv(file).raised
    /\ Len(rows_of_line(kvv_rows(read_csv(file).value), line_name)) > 0

\* C14: get_line_color gives the high-speed-rail pair for a line number
\* that starts with "ICE" or "IC" and the coach pair for one that starts
\* with "FLX", whatever the file, the fallback pair and the SEV setting are.
C14_override_precedence ==
    call.fn = "get_line_color" =>
       /\ (startswith(call.line_name, "ICE") \/ startswith(call.line_name, "IC"))
             => call.result = Return(HighSpeedRailColors)
       /\ startswith(call.line_name, "FLX") => call.result = Return(CoachColors)

\* C14: get_line_color was called for "ICE788" with a table that has a
\* local-operator row of that line
C14_witness ==
    /\ call.fn = "get_line_color"
    /\ call.line_name = "ICE788"
    /\ has_row(call.file, "ICE788")
    /\ call.result = Return(HighSpeedRailColors)

\* pair holds the colors of the first local-operator row of the line in the
\* table of the file
pair_of_first_row(file, line_name, pair) ==
    \E i \in 1..Len(file[1].rows) :
       /\ contains_nocase(file[1].rows[i].shortOperatorName, "kvv")
       /\ file[1].rows[i].lineName = line_name
       /\ \A k \in 1..(i - 1) :
             ~(/\ contains_nocase(file[1].rows[k].shortOperatorName, "kvv")
               /\ file[1].rows[k].lineName = line_name)
       /\ pair = << file[1].rows[i].backgroundColor, file[1].rows[i].textColor >>

\* get_line_color was called with a boolean SEV flag for a line number that
\* has no fixed pair and no local-operator row in the table read
no_match ==
    /\ call.fn = "get_line_color"
    /\ call.sev_setting.type = "bool"
    /\ ~startswith(call.line_name, "IC") /\ ~startswith(call.line_name, "FLX")
    /\ ~read_csv(call.file).raised
    /\ ~has_row(call.file, call.line_name)

\* C15: for a line number without a local-operator row of its own,
\* get_line_color gives the pair of the row of the line number without its
\* "SEV" prefix when the SEV flag is true, the line number starts with "SEV"
\* and there is such a row, and the fallback pair as passed in otherwise.
C15_sev_retry_and_fallback ==
    no_match =>
       /\ ~call.result.raised
       /\ IF /\ call.sev_setting.b
             /\ startswith(call.line_name, "SEV")
             /\ has_row(call.file, strfrom(call.line_name, 3))
          THEN pair_of_first_row(call.file, strfrom(call.line_name, 3),
                                 call.result.value)
          ELSE call.result.value = call.fallback_colors

\* C15: "SEV42" was looked up with the flag true in a table that has a
\* local-operator row of "42" and none of "SEV42", and got that row's pair,
\* which is not the fallback pair
C15_witness ==
    /\ no_match
    /\ call.sev_setting.b
    /\ call.line_name = "SEV42"
    /\ has_row(call.file, "42")
    /\ call.result = Return(<< "#0000FF", "#FFFFFF" >>)
    /\ call.result.value # call.fallback_colors

\* get_departures_from_xml was applied to a record and gave its Departure
decoded ==
    /\ call.fn = "get_departures_from_xml"
    /\ ~call.result.raised
    /\ Len(call.result.value) = 1

\* C16: for a published line name whose second word is "SEV",
\* get_departures_from_xml gives the line number "SEV" followed by the last
\* word.
C16_sev_rule ==
    (decoded /\ Len(call.words) > 1 /\ call.words[2] = "SEV")
       => call.result.value[1].line_number = "SEV" \o last(call.words)

\* the second word of a phrase, empty when the phrase has one word
second_word(words) == IF Len(words) >= 2 THEN words[2] ELSE ""

\* C17: for a published line name whose second word is not "SEV", the line
\* number is "ICE" and the second word when the last word is
\* "InterCityExpress", "IC" and the second word when it is "InterCity",
\* "FLX" and the last word when it is "Flixbus", and the last word
\* otherwise.
C17_other_rules ==
    (decoded /\ second_word(call.words) # "SEV")
       => call.result.value[1].line_number =
             CASE last(call.words) = "InterCityExpress" -> "ICE" \o second_word(call.words)
               [] last(call.words) = "InterCity" -> "IC" \o second_word(call.words)
               [] last(call.words) = "Flixbus" -> "FLX" \o last(call.words)
               [] OTHER -> last(call.words)

\* C17: the line name "Bus 788 InterCityExpress" was decoded to "ICE788"
C17_witness ==
    /\ decoded
    /\ call.words = << "Bus", "788", "InterCityExpress" >>
    /\ call.tree[1].PublishedLineName = Some("Bus 788 InterCityExpress")
    /\ call.result.value[1].line_number = "ICE788"

\* the text has a space
has_space(text) == \E i \in 1..Len(text) : SubSeq(text, i, i) = " "

\* rest is text without its first token and the space after it
without_first_token(text, rest) ==
    \E k \in 1..Len(text) :
       /\ SubSeq(text, k, k) = " "
       /\ ~has_space(SubSeq(text, 1, k - 1))
       /\ rest = SubSeq(text, k + 1, Len(text))

\* C18: format_platform gives the text without its first space-separated
\* token when the text has more than one token and the text itself when it
\* has one, and gives a one-token result back unchanged.
C18_platform_normalization ==
    call.fn = "format_platform" =>
       /\ IF has_space(call.platform)
          THEN without_first_token(call.platform, call.result)
          ELSE call.result = call.platform
       /\ ~has_space(call.result) => format_platform(call.result) = call.result

\* C18: format_platform was applied to "Gleis 3" and gave "3", which it
\* leaves as it is
C18_witness ==
    /\ call.fn = "format_platform"
    /\ call.platform = "Gleis 3"
    /\ call.result = "3"
    /\ format_platform("3") = "3"

\* what get_departures_from_xml gives for the record of the call with an
\* estimated time and a platform
complete_record_result ==
    get_departures_from_xml(call.stop_point_ref,
                            one_record(call.stop_point_ref, join(" ", call.words),
                                       Some(3), Some("Gleis 3")),
                            stations, FallbackColors, config.sev, color_file)

\* the Departure of the complete record with the two optional fields as the
\* record of the call has them, None for one it lacks
with_optional_fields_of(d, e) ==
    [d EXCEPT !.estimated_time = e.EstimatedTime,
              !.platform = IF e.PlannedBay = None THEN None
                           ELSE Some(format_platform(e.PlannedBay[1]))]

\* C19: a record without an estimated time or without a platform is
\* appended to the result like the complete record, with estimated_time or
\* platform None and every other field as for the complete record.
C19_optional_fields ==
    (call.fn = "get_departures_from_xml" /\ ~complete_record_result.raised)
       => call.result =
             Return(<< with_optional_fields_of(complete_record_result.value[1],
                                               call.tree[1]) >>)

\* C19: a record with neither an estimated time nor a platform was decoded
\* to a Departure with both fields None
C19_witness ==
    /\ decoded
    /\ call.tree[1].EstimatedTime = None /\ call.tree[1].PlannedBay = None
    /\ call.result.value[1].estimated_time = None
    /\ call.result.value[1].platform = None
    /\ call.result.value[1].line_number = "42"
    /\ call.result.value[1].planned_time = 2

\* C20: while update_departure_entries is waiting for kvv.get in the main
\* loop and the timer of update_data is due, update_data can start, and
\* while update_data is downloading and the timer of
\* update_departure_entries is due, update_departure_entries can start.
C20_tasks_do_not_block ==
    /\ (running = "dep" /\ main_pc = "mainloop" /\ "data" \in timers)
          => ENABLED update_data_enter
    /\ (running = "data" /\ main_pc = "mainloop" /\ "dep" \in timers)
          => ENABLED update_departure_entries_enter

\* the Departure has the texts and times of the record
from_record(d, e) ==
    /\ e.StopPointRef # None
    /\ startswith(e.StopPointRef[1], d.stop_point.stop_point_ref)
    /\ e.DestinationText = Some(d.destination)
    /\ e.TimetabledTime = Some(d.planned_time)
    /\ e.EstimatedTime = d.estimated_time
    /\ e.PtMode = Some(d.mode)

\* C21: every departure of the aggregate list and of the lists handed to the
\* windows in a cycle is decoded from a record that kvv.get has returned in
\* that cycle.
C21_list_rebuilt_each_cycle ==
    /\ \A j \in 1..Len(all_departures) :
          \E e \in fetched : from_record(all_departures[j], e)
    /\ \A w \in 1..Len(handed) : \A i \in 1..Len(handed[w]) :
          \E e \in fetched : from_record(handed[w][i], e)

\* C21: a cycle in which the response for one stop point was no XML handed
\* the departure to "Hbf" to the first window, and no record of the line
\* ICE788, whose icon an earlier cycle has cached, was returned in it
C21_witness ==
    /\ ended = "returned"
    /\ unparsable # {}
    /\ Len(handed) >= 1
    /\ \E i \in 1..Len(handed[1]) : handed[1][i].destination = "Hbf"
    /\ \E key \in icon_cache : key[2] = "ICE788"
    /\ \A e \in fetched : e.DestinationText # Some("Berlin")

\* the station has a stop point of the ref
has_ref(station, stop_point_ref) ==
    \E i \in 1..Len(station.stop_points) :
       station.stop_points[i].stop_point_ref = stop_point_ref

\* C22: every window that was refreshed is handed every departure decoded
\* in the cycle for a ref that its station has a stop point of.
C22_shared_stop_point_to_both ==
    \A w \in 1..Len(handed) : \A j \in 1..Len(all_departures) :
       has_ref(windows[w].station, all_departures[j].stop_point.stop_point_ref)
          => in_list(all_departures[j], handed[w])

\* C23: a cycle that came to the loop over the windows has handed every
\* window its departures, also when the refresh of a window raised.
C23_every_window_refreshed ==
    (running = "none" /\ ended \in { "returned", "line84" })
       => Len(handed) = Len(windows)

\* C24: when a refresh updates a slot on which clear was called in an
\* earlier refresh, the update succeeds and the slot shows the departure it
\* was updated with.
C24_cleared_slot_filled_again ==
    [][ (running = "dep" /\ running' = "none" /\ window_i' >= 1)
        => \A k \in 1..windows[window_i'].number_of_departure_entries :
              (/\ k <= Len(window_departures')
               /\ ~departure_entries[window_i'][k].line_icon_label)
                 => shows(departure_entries'[window_i'][k], window_departures'[k]) ]_vars

\* the value is one the configuration check accepts and spells false
configured_false(v) ==
    /\ is_true_false_caseinsensitive(v)
    /\ IF v.type = "bool" THEN ~v.b ELSE lower(v.s) = "false"

\* C25: with the SEV setting configured as false, as a boolean or as a
\* text, get_line_color gives the fallback pair for a line number that
\* starts with "SEV" and has no local-operator row of its own in the table.
C25_false_means_no_retry ==
    (/\ call.fn = "get_line_color"
     /\ configured_false(call.sev_setting)
     /\ startswith(call.line_name, "SEV")
     /\ ~read_csv(call.file).raised
     /\ ~has_row(call.file, call.line_name))
       => call.result = Return(call.fallback_colors)

====
